---- MODULE Spec2Model ----
(***************************************************************************)
(* A model of meteo (src/main.rs): the command-line pipeline               *)
(*   search_cities -> select_city_prompt -> fetch_meteogram                *)
(*   -> save_meteogram | show_meteogram                                    *)
(* together with its two pure helpers, the Display impl of City and        *)
(* scrape_meteogram_url.                                                   *)
(*                                                                         *)
(* Three specifications share the variables:                               *)
(*   Spec        one run of main                                           *)
(*   SpecScrape  scrape_meteogram_url applied to bounded document trees    *)
(*   SpecLabel   the Display impl of City applied to bounded labels        *)
(***************************************************************************)
EXTENDS Integers, Sequences, FiniteSets, TLC

VARIABLES
    pc,             \* position of main
    query,          \* args.query
    output,         \* args.output: None or a path
    cities,         \* search_cities' result
    input_buffer,   \* the line read from stdin (a sequence of characters)
    selected_city,  \* select_city_prompt's result
    page_contents,  \* fetch_forecast_page's result (a document)
    url,            \* scrape_meteogram_url's result: None or a URL
    meteogram,      \* fetch_meteogram's result
    fs,             \* the file system: path -> contents
    viewer,         \* the process started by the opener
    log,            \* history: the externally visible effects, in order
    err,            \* the error main returns, or how it ended
    exit_code,      \* the process's exit status, -1 while running
    doc,            \* SpecScrape: the document under test
    scraped,        \* SpecScrape: the result
    label,          \* SpecLabel: City.label, a sequence of Unicode scalar values
    name            \* SpecLabel: the formatted label

vars == <<pc, query, output, cities, input_buffer, selected_city, page_contents,
          url, meteogram, fs, viewer, log, err, exit_code, doc, scraped, label, name>>

mainVars == <<pc, query, output, cities, input_buffer, selected_city, page_contents,
              url, meteogram, fs, viewer, log, err, exit_code>>

None == "None"

----------------------------------------------------------------------------
(* Bounds *)

MaxCities == 2
MaxTokenLen == 3
MaxNodes == 4
MaxLabelLen == 6

----------------------------------------------------------------------------
(* Sequence helpers *)

RECURSIVE SeqsUpTo(_, _)
SeqsUpTo(S, n) ==
    IF n = 0 THEN {<<>>}
    ELSE LET shorter == SeqsUpTo(S, n - 1)
         IN  shorter \cup {Append(s, x) : s \in {t \in shorter : Len(t) = n - 1}, x \in S}

Min(S) == CHOOSE x \in S : \A y \in S : x <= y

----------------------------------------------------------------------------
(* scrape_meteogram_url: the document tree and the selector.               *)
(* A document is the sequence of its element nodes in document order, as   *)
(* select::document::Document stores them; parent is the index of the      *)
(* parent node, 0 for a child of the document root.                        *)

ChartUrl == "https://cdn.example/chart.png"
RelativeUrl == "/x.png"

NodeKinds ==
    { [tag |-> "div",  id |-> "meteograma", src |-> None],
      [tag |-> "div",  id |-> None,         src |-> None],
      [tag |-> "span", id |-> "meteograma", src |-> None],
      [tag |-> "img",  id |-> None,         src |-> None],
      [tag |-> "img",  id |-> None,         src |-> ChartUrl],
      [tag |-> "img",  id |-> None,         src |-> RelativeUrl] }

MkNode(kind, parent) ==
    [tag |-> kind.tag, id |-> kind.id, src |-> kind.src, parent |-> parent]

\* The proper ancestors of node i, nearest first.
RECURSIVE Ancestors(_, _)
Ancestors(d, i) ==
    IF d[i].parent = 0 THEN <<>>
    ELSE <<d[i].parent>> \o Ancestors(d, d[i].parent)

\* Where the parser may attach the next node: under the root, or under an open
\* element (the last node or one of its ancestors); img is a void element.
OpenParents(d) ==
    {0} \cup (IF d = <<>> THEN {}
              ELSE {p \in {Len(d)} \cup {Ancestors(d, Len(d))[k] : k \in 1..Len(Ancestors(d, Len(d)))} :
                        d[p].tag # "img"})

\* Name("div").and(Attr("id", "meteograma"))
DivMeteograma(d, i) == d[i].tag = "div" /\ d[i].id = "meteograma"

\* A selector that matches children only (Child for Descendant).
SelectorChild(d, i) ==
    /\ d[i].tag = "img"
    /\ d[i].parent # 0
    /\ DivMeteograma(d, d[i].parent)

\* Name("div").and(Attr("id", "meteograma")).descendant(Name("img"))
Selector(d, i) ==
    /\ d[i].tag = "img"
    /\ \E k \in 1..Len(Ancestors(d, i)) : DivMeteograma(d, Ancestors(d, i)[k])

\* doc.find(selector).next()
FindNext(d) ==
    LET found == {i \in 1..Len(d) : Selector(d, i)}
    IN  IF found = {} THEN 0 ELSE Min(found)

\* img.and_then(|node| node.attr("src")).map(|url| url.to_owned())
scrape_meteogram_url(d) ==
    LET img == FindNext(d)
    IN  IF img = 0 THEN None ELSE d[img].src

----------------------------------------------------------------------------
(* impl Display for City: percent_decode_str(&self.label)                  *)
(*     .decode_utf8_lossy().replace('+', " ")                              *)
(* A string is the sequence of its Unicode scalar values; bytes are        *)
(* integers in 0..255.                                                     *)

Percent == 37
Plus == 43
Space == 32
Replacement == 65533

\* The UTF-8 encoding of one scalar value (a Rust String holds UTF-8).
Utf8Encode(c) ==
    IF c < 128 THEN <<c>>
    ELSE IF c < 2048 THEN <<192 + (c \div 64), 128 + (c % 64)>>
    ELSE IF c < 65536
         THEN <<224 + (c \div 4096), 128 + ((c \div 64) % 64), 128 + (c % 64)>>
    ELSE <<240 + (c \div 262144), 128 + ((c \div 4096) % 64),
           128 + ((c \div 64) % 64), 128 + (c % 64)>>

RECURSIVE AsBytes(_)
AsBytes(s) ==
    IF s = <<>> THEN <<>> ELSE Utf8Encode(Head(s)) \o AsBytes(Tail(s))

\* The value of an ASCII hexadecimal digit, -1 for any other byte.
HexVal(b) ==
    IF b >= 48 /\ b <= 57 THEN b - 48
    ELSE IF b >= 65 /\ b <= 70 THEN b - 55
    ELSE IF b >= 97 /\ b <= 102 THEN b - 87
    ELSE -1

\* percent_decode_str: "%" followed by two hexadecimal digits is one byte; any
\* other byte, a "%" without two digits after it included, stands for itself.
RECURSIVE PercentDecode(_)
PercentDecode(bs) ==
    IF bs = <<>> THEN <<>>
    ELSE IF /\ bs[1] = Percent
            /\ Len(bs) >= 3
            /\ HexVal(bs[2]) >= 0
            /\ HexVal(bs[3]) >= 0
         THEN <<(16 * HexVal(bs[2])) + HexVal(bs[3])>> \o PercentDecode(SubSeq(bs, 4, Len(bs)))
         ELSE <<bs[1]>> \o PercentDecode(Tail(bs))

IsCont(bs, i, lo, hi) == i <= Len(bs) /\ bs[i] >= lo /\ bs[i] <= hi

\* The bounds of the second byte after lead byte b.
SecondLo(b) == IF b = 224 THEN 160 ELSE IF b = 240 THEN 144 ELSE 128
SecondHi(b) == IF b = 237 THEN 159 ELSE IF b = 244 THEN 143 ELSE 191

\* decode_utf8_lossy: every maximal ill-formed part becomes U+FFFD.
RECURSIVE Utf8Lossy(_)
Utf8Lossy(bs) ==
    IF bs = <<>> THEN <<>>
    ELSE LET b == bs[1]
             rest(n) == Utf8Lossy(SubSeq(bs, n + 1, Len(bs)))
         IN  IF b < 128 THEN <<b>> \o rest(1)
             ELSE IF b >= 194 /\ b <= 223 THEN
                 IF IsCont(bs, 2, 128, 191)
                 THEN <<((b - 192) * 64) + (bs[2] - 128)>> \o rest(2)
                 ELSE <<Replacement>> \o rest(1)
             ELSE IF b >= 224 /\ b <= 239 THEN
                 IF ~IsCont(bs, 2, SecondLo(b), SecondHi(b)) THEN <<Replacement>> \o rest(1)
                 ELSE IF ~IsCont(bs, 3, 128, 191) THEN <<Replacement>> \o rest(2)
                 ELSE <<((b - 224) * 4096) + ((bs[2] - 128) * 64) + (bs[3] - 128)>> \o rest(3)
             ELSE IF b >= 240 /\ b <= 244 THEN
                 IF ~IsCont(bs, 2, SecondLo(b), SecondHi(b)) THEN <<Replacement>> \o rest(1)
                 ELSE IF ~IsCont(bs, 3, 128, 191) THEN <<Replacement>> \o rest(2)
                 ELSE IF ~IsCont(bs, 4, 128, 191) THEN <<Replacement>> \o rest(3)
                 ELSE <<((b - 240) * 262144) + ((bs[2] - 128) * 4096)
                         + ((bs[3] - 128) * 64) + (bs[4] - 128)>> \o rest(4)
             ELSE <<Replacement>> \o rest(1)

\* .replace('+', " ")
ReplacePlus(s) == [i \in 1..Len(s) |-> IF s[i] = Plus THEN Space ELSE s[i]]

\* A Display impl that replaces "+" before it percent-decodes.
fmt_replaces_first(l) == Utf8Lossy(PercentDecode(AsBytes(ReplacePlus(l))))

\* fmt: what "{}" prints for a City with this label.
fmt(l) == ReplacePlus(Utf8Lossy(PercentDecode(AsBytes(l))))

----------------------------------------------------------------------------
(* The values of one run of main                                           *)

\* Two entries of the autocomplete response (struct City).
CityA ==
    [id |-> "244", custom |-> "cidade/123", value |-> "a",
     label |-> <<83, 37, 67, 51, 37, 65, 51, 111, 43, 80, 97, 117, 108, 111>>]
CityB ==
    [id |-> "241", custom |-> "cidade/456", value |-> "b",
     label |-> <<82, 105, 111, 37, 50, 48, 100, 101, 37, 50, 48,
                 74, 97, 110, 101, 105, 114, 111>>]
CitySet == {CityA, CityB}

Queries == {"rio"}

\* temp_dir().join("meteo.png")
temp_path == "/tmp/meteo.png"
OutputPaths == {"out.png", temp_path}
Paths == OutputPaths \cup {temp_path}

Assets == {"png-a", "png-b"}

\* Forecast pages the service may answer with.
PageChart ==
    << [tag |-> "div",  id |-> "meteograma", src |-> None,     parent |-> 0],
       [tag |-> "span", id |-> None,         src |-> None,     parent |-> 1],
       [tag |-> "img",  id |-> None,         src |-> ChartUrl, parent |-> 2] >>
PageRelative ==
    << [tag |-> "div",  id |-> "meteograma", src |-> None,        parent |-> 0],
       [tag |-> "img",  id |-> None,         src |-> RelativeUrl, parent |-> 1] >>
PageNoSrc ==
    << [tag |-> "div",  id |-> "meteograma", src |-> None, parent |-> 0],
       [tag |-> "img",  id |-> None,         src |-> None, parent |-> 1] >>
PageNoDiv ==
    << [tag |-> "div",  id |-> None, src |-> None,     parent |-> 0],
       [tag |-> "img",  id |-> None, src |-> ChartUrl, parent |-> 1] >>
Pages == {PageChart, PageRelative, PageNoSrc, PageNoDiv}

\* A URL the HTTP client can parse without a base; for any other the request
\* is refused when it is sent.
IsAbsolute(u) == u = ChartUrl

autocomplete_url == "https://tempo.cptec.inpe.br/autocomplete"

\* fn forecast_url
forecast_url(city) == "https://tempo.cptec.inpe.br/" \o city.custom

NoCity == [id |-> "", custom |-> "", value |-> "", label |-> <<>>]

Event(e, a) == [ev |-> e, arg |-> a, text |-> <<>>]

----------------------------------------------------------------------------
(* input_buffer.trim().parse::<usize>()                                    *)

TokenChars == {" ", "+", "-", "0", "1", "x"}

IsWhitespace(c) == c \in {" ", "\n"}

RECURSIVE TrimStart(_)
TrimStart(s) ==
    IF s # <<>> /\ IsWhitespace(Head(s)) THEN TrimStart(Tail(s)) ELSE s

RECURSIVE TrimEnd(_)
TrimEnd(s) ==
    IF s # <<>> /\ IsWhitespace(s[Len(s)]) THEN TrimEnd(SubSeq(s, 1, Len(s) - 1)) ELSE s

Trim(s) == TrimEnd(TrimStart(s))

DigitVal(c) ==
    CASE c = "0" -> 0 [] c = "1" -> 1 [] c = "2" -> 2 [] c = "3" -> 3 [] c = "4" -> 4
      [] c = "5" -> 5 [] c = "6" -> 6 [] c = "7" -> 7 [] c = "8" -> 8 [] c = "9" -> 9
      [] OTHER -> -1

\* The digits of an unsigned number, most significant first; -1 on a
\* character that is no digit.
RECURSIVE Digits(_, _)
Digits(s, acc) ==
    IF s = <<>> THEN acc
    ELSE IF DigitVal(Head(s)) < 0 THEN -1
    ELSE Digits(Tail(s), (10 * acc) + DigitVal(Head(s)))

\* str::parse::<usize>: an optional "+", then one or more digits; -1 stands
\* for Err(ParseIntError).  A "-" is no sign for an unsigned type.  Tokens of
\* at most MaxTokenLen + 1 digits stay below usize::MAX.
ParseUsize(s) ==
    IF s = <<>> THEN -1
    ELSE LET digits == IF Head(s) = "+" THEN Tail(s) ELSE s
         IN  IF digits = <<>> THEN -1 ELSE Digits(digits, 0)

----------------------------------------------------------------------------
(* One run of main.  An error returned through "?" ends the process with   *)
(* status 1; a panic ends it with status 101.                              *)

pureVars == <<doc, scraped, label, name>>

Unset == <<-1>>

Return(kind) ==
    /\ err' = kind
    /\ exit_code' = 1
    /\ pc' = "done"

Panic ==
    /\ err' = "panic"
    /\ exit_code' = 101
    /\ pc' = "done"

ReturnOk ==
    /\ err' = "Ok"
    /\ exit_code' = 0
    /\ pc' = "done"

\* fn search_cities, called from main
SearchCities ==
    /\ pc = "search_cities"
    /\ log' = Append(log, Event("GET", autocomplete_url \o "?term=" \o query))
    /\ \/ /\ Return("NetworkError")               \* send()?
          /\ UNCHANGED cities
       \/ /\ Return("NetworkError")               \* response.text()?
          /\ UNCHANGED cities
       \/ /\ Return("DeserializationError")       \* serde_json::from_str(..)?
          /\ UNCHANGED cities
       \/ /\ \E cs \in SeqsUpTo(CitySet, MaxCities) : cities' = cs
          /\ pc' = "select_city_prompt"
          /\ UNCHANGED <<err, exit_code>>
    /\ UNCHANGED <<query, output, input_buffer, selected_city, page_contents, url,
                   meteogram, fs, viewer, pureVars>>

\* The lines select_city_prompt prints: one per city, then the prompt.
Listing(cs) ==
    [i \in 1..Len(cs) |-> [ev |-> "print", arg |-> cs[i].custom, text |-> fmt(cs[i].label)]]
    \o <<Event("prompt", "")>>

\* fn select_city_prompt: the for loop and the prompt
PrintCities ==
    /\ pc = "select_city_prompt"
    /\ log' = log \o Listing(cities)
    /\ pc' = "read_line"
    /\ UNCHANGED <<query, output, cities, input_buffer, selected_city, page_contents,
                   url, meteogram, fs, viewer, err, exit_code, pureVars>>

\* fn select_city_prompt: stdin().read_line(&mut input_buffer)?
ReadLine ==
    /\ pc = "read_line"
    /\ log' = Append(log, Event("read", ""))
    /\ \/ /\ Return("IOError")
          /\ UNCHANGED input_buffer
       \/ /\ \E typed \in SeqsUpTo(TokenChars, MaxTokenLen) :
                \E eol \in {<<>>, <<"\n">>} : input_buffer' = typed \o eol
          /\ pc' = "parse"
          /\ UNCHANGED <<err, exit_code>>
    /\ UNCHANGED <<query, output, cities, selected_city, page_contents, url,
                   meteogram, fs, viewer, pureVars>>

\* fn select_city_prompt: the parse and &cities[index]
ParseIndex ==
    /\ pc = "parse"
    /\ LET index == ParseUsize(Trim(input_buffer))
       IN  IF index < 0
           THEN Return("InvalidSelectionError") /\ UNCHANGED selected_city
           ELSE IF index >= Len(cities)
           THEN Panic /\ UNCHANGED selected_city
           ELSE /\ selected_city' = cities[index + 1]
                /\ pc' = "fetch_forecast_page"
                /\ UNCHANGED <<err, exit_code>>
    /\ UNCHANGED <<query, output, cities, input_buffer, page_contents, url,
                   meteogram, fs, viewer, log, pureVars>>

\* A fetch_forecast_page whose caller notes the error and goes on with an
\* empty page instead of returning.
FetchForecastPageGoesOn ==
    /\ pc = "fetch_forecast_page"
    /\ log' = Append(log, Event("GET", forecast_url(selected_city)))
    /\ \/ /\ err' = "NetworkError"
          /\ exit_code' = 1
          /\ page_contents' = <<>>
          /\ pc' = "scrape_meteogram_url"
       \/ /\ \E page \in Pages : page_contents' = page
          /\ pc' = "scrape_meteogram_url"
          /\ UNCHANGED <<err, exit_code>>
    /\ UNCHANGED <<query, output, cities, input_buffer, selected_city, url,
                   meteogram, fs, viewer, pureVars>>

\* fn fetch_forecast_page, called from fetch_meteogram
FetchForecastPage ==
    /\ pc = "fetch_forecast_page"
    /\ log' = Append(log, Event("GET", forecast_url(selected_city)))
    /\ \/ /\ Return("NetworkError")               \* send()?
          /\ UNCHANGED page_contents
       \/ /\ Return("NetworkError")               \* response.text()?
          /\ UNCHANGED page_contents
       \/ /\ \E page \in Pages : page_contents' = page
          /\ pc' = "scrape_meteogram_url"
          /\ UNCHANGED <<err, exit_code>>
    /\ UNCHANGED <<query, output, cities, input_buffer, selected_city, url,
                   meteogram, fs, viewer, pureVars>>

\* fn fetch_meteogram: the call of scrape_meteogram_url
ScrapeMeteogramUrl ==
    /\ pc = "scrape_meteogram_url"
    /\ url' = scrape_meteogram_url(page_contents)
    /\ log' = Append(log, Event("scrape", ""))
    /\ pc' = "context"
    /\ UNCHANGED <<query, output, cities, input_buffer, selected_city, page_contents,
                   meteogram, fs, viewer, err, exit_code, pureVars>>

\* A fetch_meteogram that does not check the locator's result
\* (unwrap_or_default for context(..)?).
ContextUnchecked ==
    /\ pc = "context"
    /\ pc' = "fetch_asset"
    /\ UNCHANGED <<query, output, cities, input_buffer, selected_city, page_contents,
                   url, meteogram, fs, viewer, log, err, exit_code, pureVars>>

\* fn fetch_meteogram: .context("Could not find meteogram URL")?
Context ==
    /\ pc = "context"
    /\ IF url = None
       THEN Return("MeteogramNotFoundError")
       ELSE pc' = "fetch_asset" /\ UNCHANGED <<err, exit_code>>
    /\ UNCHANGED <<query, output, cities, input_buffer, selected_city, page_contents,
                   url, meteogram, fs, viewer, log, pureVars>>

\* A fetch_meteogram that goes on with no bytes when the body cannot be read
\* (unwrap_or_default for bytes()?).
FetchAssetDefaultBody ==
    /\ pc = "fetch_asset"
    /\ log' = Append(log, Event("GET", url))
    /\ \/ /\ Return("NetworkError")
          /\ UNCHANGED meteogram
       \/ /\ IsAbsolute(url)
          /\ meteogram' = ""
          /\ pc' = "create"
          /\ UNCHANGED <<err, exit_code>>
    /\ UNCHANGED <<query, output, cities, input_buffer, selected_city, page_contents,
                   url, fs, viewer, pureVars>>

\* fn fetch_meteogram: Client::new().get(url).send()? and response.bytes()?
\* The history keeps the body the server answered with.
FetchAsset ==
    /\ pc = "fetch_asset"
    /\ \/ /\ Return("NetworkError")               \* send()?
          /\ log' = Append(log, Event("GET", url))
          /\ UNCHANGED meteogram
       \/ /\ IsAbsolute(url)
          /\ Return("NetworkError")               \* response.bytes()?
          /\ log' = Append(log, Event("GET", url))
          /\ UNCHANGED meteogram
       \/ /\ IsAbsolute(url)
          /\ \E bytes \in Assets :
                /\ meteogram' = bytes
                /\ log' = log \o <<Event("GET", url), Event("body", bytes)>>
          /\ pc' = "create"
          /\ UNCHANGED <<err, exit_code>>
    /\ UNCHANGED <<query, output, cities, input_buffer, selected_city, page_contents,
                   url, fs, viewer, pureVars>>

\* A main that saves to the scratch file whatever args.output is.
save_path_ignores_output == temp_path

\* main's match on args.output: the path save_meteogram is called with, by
\* main itself or by show_meteogram.
save_path == IF output = None THEN temp_path ELSE output

\* fn save_meteogram: File::create(path)?
Create ==
    /\ pc = "create"
    /\ log' = Append(log, Event("create", save_path))
    /\ \/ /\ Return("IOError")
          /\ UNCHANGED fs
       \/ /\ fs' = [fs EXCEPT ![save_path] = ""]
          /\ pc' = "write_all"
          /\ UNCHANGED <<err, exit_code>>
    /\ UNCHANGED <<query, output, cities, input_buffer, selected_city, page_contents,
                   url, meteogram, viewer, pureVars>>

\* A show_meteogram that drops save_meteogram's result (no "?") and opens the
\* file whether or not it was written.
WriteAllUnchecked ==
    /\ pc = "write_all"
    /\ log' = Append(log, Event("write", save_path))
    /\ \/ /\ \E left \in {"", "partial"} : fs' = [fs EXCEPT ![save_path] = left]
          /\ IF output = None
             THEN pc' = "open" /\ UNCHANGED <<err, exit_code>>
             ELSE Return("IOError")
       \/ /\ fs' = [fs EXCEPT ![save_path] = meteogram]
          /\ IF output = None
             THEN pc' = "open" /\ UNCHANGED <<err, exit_code>>
             ELSE ReturnOk
    /\ UNCHANGED <<query, output, cities, input_buffer, selected_city, page_contents,
                   url, meteogram, viewer, pureVars>>

\* fn save_meteogram: file.write_all(bytes)?, and the return to main or to
\* show_meteogram
WriteAll ==
    /\ pc = "write_all"
    /\ log' = Append(log, Event("write", save_path))
    /\ \/ /\ Return("IOError")
          /\ \E left \in {"", "partial"} : fs' = [fs EXCEPT ![save_path] = left]
       \/ /\ fs' = [fs EXCEPT ![save_path] = meteogram]
          /\ IF output = None
             THEN pc' = "open" /\ UNCHANGED <<err, exit_code>>
             ELSE ReturnOk
    /\ UNCHANGED <<query, output, cities, input_buffer, selected_city, page_contents,
                   url, meteogram, viewer, pureVars>>

\* fn show_meteogram: open::that(&temp_path)?
OpenThat ==
    /\ pc = "open"
    /\ log' = Append(log, Event("open", temp_path))
    /\ \/ /\ Return("LaunchError")
          /\ UNCHANGED viewer
       \/ /\ viewer' = "running"
          /\ ReturnOk
    /\ UNCHANGED <<query, output, cities, input_buffer, selected_city, page_contents,
                   url, meteogram, fs, pureVars>>

\* The viewer is a process of its own: it ends when its user closes it.
ViewerExit ==
    /\ viewer = "running"
    /\ viewer' = "exited"
    /\ UNCHANGED <<pc, query, output, cities, input_buffer, selected_city, page_contents,
                   url, meteogram, fs, log, err, exit_code, pureVars>>

PureIdle ==
    /\ doc = <<>>
    /\ scraped = "unset"
    /\ label = <<>>
    /\ name = Unset

\* fn main: Args::parse()
Init ==
    /\ pc = "search_cities"
    /\ query \in Queries
    /\ output \in {None} \cup OutputPaths
    /\ cities = <<>>
    /\ input_buffer = <<>>
    /\ selected_city = NoCity
    /\ page_contents = <<>>
    /\ url = None
    /\ meteogram = ""
    /\ fs = [p \in Paths |-> "old"]
    /\ viewer = "none"
    /\ log = <<>>
    /\ err = "none"
    /\ exit_code = -1
    /\ PureIdle

Next ==
    \/ SearchCities
    \/ PrintCities
    \/ ReadLine
    \/ ParseIndex
    \/ FetchForecastPage
    \/ ScrapeMeteogramUrl
    \/ Context
    \/ FetchAsset
    \/ Create
    \/ WriteAll
    \/ OpenThat
    \/ ViewerExit

Spec == Init /\ [][Next]_vars

MainIdle ==
    /\ pc = "idle"
    /\ query = ""
    /\ output = None
    /\ cities = <<>>
    /\ input_buffer = <<>>
    /\ selected_city = NoCity
    /\ page_contents = <<>>
    /\ url = None
    /\ meteogram = ""
    /\ fs = [p \in Paths |-> "old"]
    /\ viewer = "none"
    /\ log = <<>>
    /\ err = "none"
    /\ exit_code = -1

----------------------------------------------------------------------------
(* scrape_meteogram_url on every document of at most MaxNodes elements     *)

\* The parser appends the next element of the page.
AddNode ==
    /\ scraped = "unset"
    /\ Len(doc) < MaxNodes
    /\ \E kind \in NodeKinds : \E parent \in OpenParents(doc) :
          doc' = Append(doc, MkNode(kind, parent))
    /\ UNCHANGED <<scraped, label, name, mainVars>>

\* fn scrape_meteogram_url
Scrape ==
    /\ scraped = "unset"
    /\ scraped' = scrape_meteogram_url(doc)
    /\ UNCHANGED <<doc, label, name, mainVars>>

InitScrape == MainIdle /\ PureIdle

NextScrape == AddNode \/ Scrape

SpecScrape == InitScrape /\ [][NextScrape]_vars

----------------------------------------------------------------------------
(* The Display impl on every label of at most MaxLabelLen characters       *)

\* "%", "+", "2", "B", "C" and U+00B2
LabelChars == {Percent, Plus, 50, 66, 67, 178}

\* The service's answer is deserialized one character at a time.
AppendChar ==
    /\ name = Unset
    /\ Len(label) < MaxLabelLen
    /\ \E c \in LabelChars : label' = Append(label, c)
    /\ UNCHANGED <<name, doc, scraped, mainVars>>

\* impl Display for City: fn fmt
Format ==
    /\ name = Unset
    /\ name' = fmt(label)
    /\ UNCHANGED <<label, doc, scraped, mainVars>>

\* The labels start empty or as one of the two cities' labels.
InitLabel ==
    /\ MainIdle
    /\ doc = <<>>
    /\ scraped = "unset"
    /\ label \in {<<>>, CityA.label, CityB.label}
    /\ name = Unset

NextLabel == AppendChar \/ Format

SpecLabel == InitLabel /\ [][NextLabel]_vars

----------------------------------------------------------------------------
(* Reading the history                                                     *)

At(e) == {i \in 1..Len(log) : log[i].ev = e}

Happened(e) == At(e) # {}

IsLookupRequest(i) ==
    log[i].ev = "GET" /\ log[i].arg = autocomplete_url \o "?term=" \o query

IsPageRequest(i) ==
    log[i].ev = "GET" /\ \E c \in CitySet : log[i].arg = forecast_url(c)

IsAssetRequest(i) ==
    log[i].ev = "GET" /\ ~IsLookupRequest(i) /\ ~IsPageRequest(i)

LookupRequests == {i \in 1..Len(log) : IsLookupRequest(i)}

PageRequests == {i \in 1..Len(log) : IsPageRequest(i)}

AssetRequests == {i \in 1..Len(log) : IsAssetRequest(i)}

\* The stage an entry of the history belongs to: 1 lookup, 2 selection,
\* 3 forecast-page fetch, 4 meteogram-URL location, 5 asset fetch, 6 output sink.
StageOf(i) ==
    IF IsLookupRequest(i) THEN 1
    ELSE IF log[i].ev \in {"print", "prompt", "read"} THEN 2
    ELSE IF IsPageRequest(i) THEN 3
    ELSE IF log[i].ev = "scrape" THEN 4
    ELSE IF IsAssetRequest(i) \/ log[i].ev = "body" THEN 5
    ELSE 6

Started(k) == \E i \in 1..Len(log) : StageOf(i) = k

Failed == err \notin {"none", "Ok"}

NoSinkEffect ==
    /\ \A p \in Paths : fs[p] = "old"
    /\ ~Happened("create") /\ ~Happened("write") /\ ~Happened("open")
    /\ viewer = "none"

----------------------------------------------------------------------------
(* C1 *)

\* The lookup succeeded and returned no candidate.
LookupEmpty ==
    /\ pc \notin {"idle", "search_cities"}
    /\ cities = <<>>
    /\ ~(pc = "done" /\ Len(log) = 1)

\* C1: when the lookup succeeds with zero candidates, the run fails with
\* NoResultsError before the prompt is shown or any input is read, and no
\* forecast-page request, asset request, file write or viewer launch occurs.
C1_EmptyLookupRejected ==
    LookupEmpty =>
        /\ ~Happened("prompt")
        /\ ~Happened("read")
        /\ pc \in {"select_city_prompt", "done"}
        /\ pc = "done" => err = "NoResultsError"
        /\ PageRequests = {}
        /\ AssetRequests = {}
        /\ NoSinkEffect

----------------------------------------------------------------------------
(* C2 *)

\* The value of a string of decimal digits.
RECURSIVE NumeralValue(_)
NumeralValue(t) ==
    IF t = <<>> THEN 0
    ELSE (10 * NumeralValue(SubSeq(t, 1, Len(t) - 1))) + DigitVal(t[Len(t)])

\* The token, surrounding whitespace aside, writes the integer i: decimal
\* digits, which a "+" may precede.
Denotes(tok, i) ==
    LET t == Trim(tok)
        digits == IF t # <<>> /\ t[1] = "+" THEN Tail(t) ELSE t
    IN  /\ digits # <<>>
        /\ \A k \in 1..Len(digits) : DigitVal(digits[k]) >= 0
        /\ NumeralValue(digits) = i

ReadFailed ==
    /\ pc = "done"
    /\ err = "IOError"
    /\ log[Len(log)].ev = "read"

\* A token was read and the selection step has ended.
Selected == Happened("read") /\ pc # "parse" /\ ~ReadFailed

\* C2: the selection step returns the candidate at index i exactly when the
\* token is an integer i with 0 <= i < n; for every other token it fails
\* with InvalidSelectionError as an error outcome (exit status 1), and no
\* forecast-page request follows.
C2_SelectionByIndex ==
    Selected =>
        IF \E i \in 0..(Len(cities) - 1) : Denotes(input_buffer, i)
        THEN /\ \E i \in 0..(Len(cities) - 1) :
                    Denotes(input_buffer, i) /\ selected_city = cities[i + 1]
             /\ err # "InvalidSelectionError"
        ELSE /\ err = "InvalidSelectionError"
             /\ exit_code = 1
             /\ pc = "done"
             /\ selected_city = NoCity
             /\ PageRequests = {}

----------------------------------------------------------------------------
(* C3 *)

\* What a stage leaves behind when it has completed successfully.
Completed(k) ==
    CASE k = 1 -> LookupRequests # {} /\ ~(pc = "done" /\ Len(log) = 1)
      [] k = 2 -> Happened("prompt") /\ Happened("read")
                  /\ \E i \in 1..Len(cities) : selected_city = cities[i]
      [] k = 3 -> PageRequests # {} /\ page_contents \in Pages
      [] k = 4 -> Happened("scrape") /\ url # None
      [] k = 5 -> AssetRequests # {} /\ Happened("body") /\ meteogram \in Assets

StagesInOrder ==
    /\ \A i, j \in 1..Len(log) : i < j => StageOf(i) <= StageOf(j)
    /\ \A k \in 2..6 : Started(k) => Started(k - 1) /\ Completed(k - 1)
    /\ Failed => pc = "done"

\* C3: the stages occur in the order lookup, selection, forecast-page fetch,
\* meteogram-URL location, asset fetch, output sink; a stage starts only if
\* the previous one completed successfully, and once a stage has failed no
\* later stage is started: the history of effects and the files stay as
\* they are.
C3_StagesSequential ==
    /\ []StagesInOrder
    /\ [][Failed => log' = log /\ fs' = fs /\ viewer' = viewer /\ pc' = "done"]_vars

\* All six stages ran, the sink included.
C3_Witness ==
    /\ pc = "done"
    /\ exit_code = 0
    /\ \A k \in 1..6 : Started(k)

----------------------------------------------------------------------------
(* C4 *)

\* fetch_meteogram has gone past its "?" on the locator's result.
Located == Happened("scrape") /\ pc # "context"

AssetOutcome ==
    /\ (Located /\ url = None) =>
            /\ err = "MeteogramNotFoundError"
            /\ pc = "done"
            /\ AssetRequests = {}
            /\ ~Happened("body")
    /\ (Located /\ url # None /\ pc # "fetch_asset") =>
            /\ Cardinality(AssetRequests) = 1
            /\ \A i \in AssetRequests : log[i].arg = url
            /\ err # "MeteogramNotFoundError"
            /\ pc # "done" \/ err # "NetworkError" \/ log[Len(log)].ev # "GET" =>
                   \E i \in At("body") : meteogram = log[i].arg
    /\ ~Happened("scrape") => AssetRequests = {} /\ err # "MeteogramNotFoundError"

\* C4: fetch_meteogram fails with MeteogramNotFoundError and issues no asset
\* request when the locator returns absence; when the locator returns a URL
\* it issues exactly one asset request, to that URL, and what it returns is
\* the body of the answer.  The step that calls the locator raises no error:
\* the absence becomes an error in fetch_meteogram's next step only.
C4_AbsenceBecomesError ==
    /\ []AssetOutcome
    /\ [][pc = "scrape_meteogram_url" =>
            /\ err' = err
            /\ pc' = "context"
            /\ url' = scrape_meteogram_url(page_contents)]_vars

\* The locator returned absence and fetch_meteogram has failed on it.
C4_Witness ==
    /\ pc = "done"
    /\ Happened("scrape")
    /\ url = None
    /\ err = "MeteogramNotFoundError"

----------------------------------------------------------------------------
(* C5 *)

\* Node i lies in the subtree below node a.
RECURSIVE Under(_, _, _)
Under(d, i, a) ==
    /\ d[i].parent # 0
    /\ \/ d[i].parent = a
       \/ Under(d, d[i].parent, a)

MeteogramDivs(d) == {a \in 1..Len(d) : d[a].tag = "div" /\ d[a].id = "meteograma"}

ImgsUnder(d, a) == {i \in 1..Len(d) : d[i].tag = "img" /\ Under(d, i, a)}

\* The src of the first img below the first div with id meteograma.
ByFirstDiv(d) ==
    IF MeteogramDivs(d) = {} THEN None
    ELSE LET imgs == ImgsUnder(d, Min(MeteogramDivs(d)))
         IN  IF imgs = {} THEN None ELSE d[Min(imgs)].src

\* The src of the first img below the first div with id meteograma that has
\* an img below it.
ByFirstDivWithImg(d) ==
    LET divs == {a \in MeteogramDivs(d) : ImgsUnder(d, a) # {}}
    IN  IF divs = {} THEN None
        ELSE d[Min(ImgsUnder(d, Min(divs)))].src

\* C5 as stated: the result is determined by the first div with id
\* meteograma in document order and the first img in its subtree: the src of
\* that img, and None when there is no such div, when that div has no
\* descendant img or when that img has no src.
C5_FirstDivDecides ==
    scraped # "unset" => scraped = ByFirstDiv(doc)

\* C5 as amended: the result is determined by the first div with id
\* meteograma in document order that has a descendant img, and by the first
\* img in its subtree: the src of that img, and None when no div with id
\* meteograma has a descendant img or when that img has no src.
C5_FirstDivWithImgDecides ==
    scraped # "unset" => scraped = ByFirstDivWithImg(doc)

\* A document whose first div with id meteograma holds no img while a later
\* one does, and the URL found in the later one.
C5_Witness ==
    /\ scraped \notin {"unset", None}
    /\ MeteogramDivs(doc) # {}
    /\ ImgsUnder(doc, Min(MeteogramDivs(doc))) = {}

----------------------------------------------------------------------------
(* C6 *)

Succeeded == pc = "done" /\ exit_code = 0

\* The places the run wrote to: the targets of its create and write calls and
\* the files whose contents changed.
Written ==
    {log[i].arg : i \in At("create") \cup At("write")} \cup {p \in Paths : fs[p] # "old"}

\* C6 as stated: in a successful run with an output path, exactly the bytes
\* the asset fetch returned are in that path, the temp scratch file is not
\* written and the viewer is never invoked; with no output path, exactly
\* those bytes are in the temp scratch file, the viewer is invoked on it and
\* no other path is written.
C6_ModesExclusive ==
    Succeeded =>
        \E i \in At("body") :
            IF output # None
            THEN /\ fs[output] = log[i].arg
                 /\ temp_path \notin Written
                 /\ ~Happened("open")
                 /\ viewer = "none"
            ELSE /\ fs[temp_path] = log[i].arg
                 /\ \E o \in At("open") : log[o].arg = temp_path
                 /\ viewer # "none"
                 /\ Written = {temp_path}

\* C6 as amended: in a successful run with an output path, exactly the bytes
\* the asset fetch returned are in that path, no other path is written (the
\* temp scratch file is written only when it is the output path itself) and
\* the viewer is never invoked; with no output path, exactly those bytes are
\* in the temp scratch file, the viewer is invoked on it and no other path
\* is written.
C6_ModesExclusiveByPath ==
    Succeeded =>
        \E i \in At("body") :
            IF output # None
            THEN /\ fs[output] = log[i].arg
                 /\ Written = {output}
                 /\ ~Happened("open")
                 /\ viewer = "none"
            ELSE /\ fs[temp_path] = log[i].arg
                 /\ \E o \in At("open") : log[o].arg = temp_path
                 /\ viewer # "none"
                 /\ Written = {temp_path}

\* A successful run that saved to an output path other than the scratch file.
C6_Witness ==
    /\ Succeeded
    /\ output \notin {None, temp_path}
    /\ fs[output] = meteogram

----------------------------------------------------------------------------
(* C7 *)

ShowOutcome ==
    output = None =>
        /\ Cardinality(At("open")) <= 1
        /\ \A o \in At("open") :
              /\ log[o].arg = temp_path
              /\ \E c \in At("create"), w \in At("write") :
                    /\ c < w /\ w < o
                    /\ log[c].arg = temp_path
                    /\ log[w].arg = temp_path
              /\ fs[temp_path] = meteogram
        /\ (pc = "done" /\ Started(6) /\ ~Happened("open")) =>
              /\ err = "IOError"
              /\ exit_code = 1
              /\ viewer = "none"
        /\ (pc = "done" /\ Happened("open") /\ viewer = "none") =>
              /\ err = "LaunchError"
              /\ exit_code = 1
        /\ (pc = "done" /\ viewer # "none") => err = "Ok" /\ exit_code = 0

\* C7: show writes the bytes to the fixed temp file before the opener is
\* invoked; the opener is invoked at most once and only after the write
\* succeeded; a failed write makes show fail with IOError and the opener is
\* never invoked; an opener that cannot be invoked makes show fail with
\* LaunchError; show returns as soon as the opener has started the viewer,
\* which is still running then.
C7_ShowWritesThenOpens ==
    /\ []ShowOutcome
    /\ [][(pc = "open" /\ pc' = "done" /\ err' = "Ok") => viewer' = "running"]_vars

\* show has returned and the viewer it started is still running.
C7_Witness ==
    /\ pc = "done"
    /\ output = None
    /\ err = "Ok"
    /\ viewer = "running"

----------------------------------------------------------------------------
(* C8 *)

\* The error kinds each stage raises.
StageKinds(k) ==
    CASE k = 1 -> {"NetworkError", "DeserializationError"}
      [] k = 2 -> {"NoResultsError", "InvalidSelectionError", "IOError"}
      [] k = 3 -> {"NetworkError"}
      [] k = 4 -> {"MeteogramNotFoundError"}
      [] k = 5 -> {"NetworkError"}
      [] k = 6 -> {"IOError", "LaunchError"}

AllStagesSucceeded ==
    /\ \A k \in 1..6 : Started(k)
    /\ \A k \in 1..5 : Completed(k)
    /\ fs[save_path] = meteogram
    /\ output = None => viewer # "none"

\* C8: a run ends with exit status zero exactly when all stages succeeded and
\* with a non-zero status when a stage failed; no stage is retried (each of
\* the three HTTP requests is issued at most once); the error reported is of
\* the kind the failing stage raises, one of NetworkError,
\* DeserializationError, NoResultsError, InvalidSelectionError,
\* MeteogramNotFoundError, IOError and LaunchError.
C8_ExitReflectsStages ==
    /\ Cardinality(LookupRequests) <= 1
    /\ Cardinality(PageRequests) <= 1
    /\ Cardinality(AssetRequests) <= 1
    /\ pc = "done" =>
          /\ exit_code = 0 <=> AllStagesSucceeded
          /\ exit_code = 0 => err = "Ok"
          /\ exit_code # 0 => err \in StageKinds(StageOf(Len(log)))

----------------------------------------------------------------------------
(* C10 *)

SinkTouched == ~NoSinkEffect

\* C10: no file is created or truncated and no viewer is launched unless the
\* lookup, the selection, the forecast-page fetch, the meteogram-URL location
\* and the asset fetch have all succeeded; a run that fails in one of those
\* stages leaves the output path and the temp scratch file unchanged.
C10_SinkOnlyAfterFetch ==
    /\ SinkTouched => \A k \in 1..5 : Started(k) /\ Completed(k)
    /\ (pc = "done" /\ Failed /\ StageOf(Len(log)) <= 5) => NoSinkEffect

\* A run that failed in the asset fetch, the last stage before the sink.
C10_Witness ==
    /\ pc = "done"
    /\ err = "NetworkError"
    /\ Started(5)
    /\ NoSinkEffect

----------------------------------------------------------------------------
(* C9 *)

HexDigits == (48..57) \cup (65..70) \cup (97..102)

\* The number a hexadecimal digit writes.
HexDigitValue(b) ==
    CHOOSE v \in 0..15 :
        \/ v <= 9 /\ b = 48 + v
        \/ v >= 10 /\ b \in {55 + v, 87 + v}

\* Byte k starts an escape: a "%" and two hexadecimal digits.
EscapeAt(bs, k) ==
    /\ k + 2 <= Len(bs)
    /\ bs[k] = Percent
    /\ bs[k + 1] \in HexDigits
    /\ bs[k + 2] \in HexDigits

\* Percent-decoding read off the positions of the escapes: from byte k on,
\* an escape gives its byte and any other byte is kept.  "+" is a byte like
\* any other here.
RECURSIVE PercentDecoded(_, _)
PercentDecoded(bs, k) ==
    IF k > Len(bs) THEN <<>>
    ELSE IF EscapeAt(bs, k)
    THEN <<(16 * HexDigitValue(bs[k + 1])) + HexDigitValue(bs[k + 2])>>
         \o PercentDecoded(bs, k + 3)
    ELSE <<bs[k]>> \o PercentDecoded(bs, k + 1)

PlusToSpace(s) == [k \in 1..Len(s) |-> IF s[k] = Plus THEN Space ELSE s[k]]

\* "São Paulo" and "Rio de Janeiro"
SaoPaulo == <<83, 227, 111, 32, 80, 97, 117, 108, 111>>
RioDeJaneiro == <<82, 105, 111, 32, 100, 101, 32, 74, 97, 110, 101, 105, 114, 111>>

\* C9: the formatted label is the percent-decoded label (decoded as UTF-8)
\* with every "+" then replaced by a space, so that a "+" is never an escape
\* while decoding and a "+" that decoding produces is replaced too; a label
\* with no "%" and no "+" is returned unchanged, so formatting it twice gives
\* what formatting it once gives.
C9_DecodeThenReplace ==
    name # Unset =>
        /\ name = PlusToSpace(Utf8Lossy(PercentDecoded(AsBytes(label), 1)))
        /\ \A k \in 1..Len(name) : name[k] # Plus
        /\ (\A k \in 1..Len(label) : label[k] \notin {Percent, Plus}) =>
              /\ name = label
              /\ fmt(name) = name
        /\ label = CityA.label => name = SaoPaulo
        /\ label = CityB.label => name = RioDeJaneiro

\* "%2B" has been formatted: decoding gives "+", which is replaced.
C9_Witness ==
    /\ label = <<Percent, 50, 66>>
    /\ name = <<Space>>

====
